---- MODULE Spec2Model ----
(***************************************************************************)
(* MeanVecFieldCartesian (py/managers/MeanVecFieldCartesian.py): ensemble  *)
(* statistics over a list of instantaneous velocity fields.                *)
(*                                                                         *)
(* Encoding of Python values:                                              *)
(*   None            [kind |-> "None"]                                     *)
(*   int k           [kind |-> "int", v |-> k]                             *)
(*   str             the sequence of its characters, <<"u", "v">>          *)
(*   masked array    [kind |-> "ma", shape |-> <<R, C>>,                   *)
(*                    cell |-> [row-major index -> [mask, val]]]           *)
(*   float           an exact rational [n, d, root] standing for           *)
(*                   (n/d)^(1/root); rounding is not modelled              *)
(* A masked cell carries no value: its val is kept at Zero.                *)
(***************************************************************************)
EXTENDS Integers, Sequences, FiniteSets, TLC

VARIABLES
    constructed,                  \* an instance exists (its __init__ returned)
    min_points,                   \* self.min_points
    constituent_vel_matrix_list,  \* self.constituent_vel_matrix_list
    x_set, y_set, dims, meshgrid, \* inherited from the first VecField of an ingest
    vel_matrix,                   \* self.vel_matrix
    last                          \* the last call: what it was given, raised, returned

vars == <<constructed, min_points, constituent_vel_matrix_list,
          x_set, y_set, dims, meshgrid, vel_matrix, last>>

\* ------------------------------------------------------------------ bounds
MaxPaths == 3      \* longest filepath_list handed to one ingest
MaxDepth == 3      \* most samples an instance retains
MaxPoints == 2     \* largest explicit threshold tried besides the default
MaxWrites == 1     \* most fields holding a caller-written value at once

DefaultMinPoints == 20

\* ------------------------------------------------------------ Python values
None == [kind |-> "None"]
PyInt(k) == [kind |-> "int", v |-> k]
PyStr(s) == [kind |-> "str", s |-> s]

RECURSIVE Reverse(_)
\* key[::-1]
Reverse(s) == IF s = <<>> THEN <<>> ELSE Append(Reverse(Tail(s)), Head(s))

\* ---------------------------------------------------------------- rationals
RECURSIVE GCD(_, _)
GCD(a, b) == IF b = 0 THEN a ELSE GCD(b, a % b)

AbsInt(a) == IF a < 0 THEN 0 - a ELSE a

Rat(n, d) ==
    LET g == GCD(AbsInt(n), AbsInt(d))
        s == IF d < 0 THEN 0 - 1 ELSE 1
    IN  [n |-> (s * n) \div g, d |-> (s * d) \div g, root |-> 1]

Zero == Rat(0, 1)

\* Arithmetic on fractions; the results are left unreduced and Reduced() when
\* they are stored in an array.
Frac(n, d) == [n |-> n, d |-> d, root |-> 1]
Reduced(p) == IF p.root = 1 THEN Rat(p.n, p.d) ELSE p
Add(p, q) == IF p.d = q.d THEN Frac(p.n + q.n, p.d)
             ELSE Frac(p.n * q.d + q.n * p.d, p.d * q.d)
Sub(p, q) == IF p.d = q.d THEN Frac(p.n - q.n, p.d)
             ELSE Frac(p.n * q.d - q.n * p.d, p.d * q.d)
Mul(p, q) == Frac(p.n * q.n, p.d * q.d)
DivInt(p, k) == Frac(p.n, p.d * k)
AbsRat(p) == Frac(AbsInt(p.n), p.d)

RECURSIVE ISqrt(_, _)
\* the integer r >= k with r * r >= m, searched upwards
ISqrt(m, k) == IF k * k >= m THEN k ELSE ISqrt(m, k + 1)

\* x ** 0.5 of a non-negative rational: exact when it is rational, else kept
\* as the root of its radicand
Sqrt(p) ==
    LET q == Rat(p.n, p.d)
        rn == ISqrt(q.n, 0)
        rd == ISqrt(q.d, 0)
    IN  IF rn * rn = q.n /\ rd * rd = q.d
        THEN Rat(rn, rd)
        ELSE [n |-> q.n, d |-> q.d, root |-> 2]

\* ------------------------------------------------------------ masked arrays
Valid(q) == [mask |-> FALSE, val |-> q]
Masked == [mask |-> TRUE, val |-> Zero]

NCells(shape) == shape[1] * shape[2]

\* a function on 1..n as the tuple of its values (each computed once)
AsTuple(f) == f \o <<>>

\* an array of the given shape from its cells, the values in lowest terms
MA(shape, f) ==
    [kind |-> "ma", shape |-> shape,
     cell |-> AsTuple([i \in DOMAIN f |->
                 [mask |-> f[i].mask, val |-> Reduced(f[i].val)]])]

\* numpy broadcasting of an array of shape `from` into a slice of shape `to`
Broadcastable(from, to) ==
    \A ax \in 1..2 : from[ax] = to[ax] \/ from[ax] = 1

\* the cell of an array of shape `from` that lands on cell i of shape `to`
BroadcastIndex(from, to, i) ==
    LET r == (i - 1) \div to[2]
        c == (i - 1) % to[2]
        fr == IF from[1] = 1 THEN 0 ELSE r
        fc == IF from[2] = 1 THEN 0 ELSE c
    IN  fr * from[2] + fc + 1

\* ------------------------------------------------------- the sample loader
\* A velocity matrix from its row-major entries; an entry of Hole is invalid.
Hole == "--"
FromEntries(shape, entries) ==
    MA(shape, [i \in 1..NCells(shape) |->
                 IF entries[i].kind = "str" THEN Masked
                 ELSE Valid(Rat(entries[i].v, 1))])

I(k) == PyInt(k)
H == PyStr(Hole)

\* The loadable files. a, b, c share a 1 x 2 grid, d has a 1 x 1 grid.
\*   a: second cell invalid in all three components
\*   c: second cell invalid in V alone
Paths == {"a.v3d", "b.v3d", "c.v3d", "d.v3d"}

FileShape(path) == IF path = "d.v3d" THEN <<1, 1>> ELSE <<1, 2>>

FileEntries(path) ==
    CASE path = "a.v3d" -> [U |-> <<I(1), H>>,    V |-> <<I(2), H>>,    W |-> <<I(0), H>>]
      [] path = "b.v3d" -> [U |-> <<I(3), I(4)>>, V |-> <<I(1), I(0)>>, W |-> <<I(2), I(2)>>]
      [] path = "c.v3d" -> [U |-> <<I(5), I(2)>>, V |-> <<I(0), H>>,    W |-> <<I(1), I(1)>>]
      [] path = "d.v3d" -> [U |-> <<I(2)>>,       V |-> <<I(1)>>,       W |-> <<I(0)>>]

\* VecFieldCartesian(path): what the aggregator reads of a loaded sample
VecFieldCartesian(path) ==
    LET shape == FileShape(path)
        e == FileEntries(path)
    IN  [dims |-> <<PyInt(shape[1]), PyInt(shape[2])>>,
         x_set |-> [c \in 1..shape[2] |-> c],
         y_set |-> [r \in 1..shape[1] |-> r],
         meshgrid |-> [x_mesh |-> MA(shape, [i \in 1..NCells(shape) |->
                                        Valid(Rat(((i - 1) % shape[2]) + 1, 1))]),
                       y_mesh |-> MA(shape, [i \in 1..NCells(shape) |->
                                        Valid(Rat(((i - 1) \div shape[2]) + 1, 1))])],
         vel_matrix |-> [U |-> FromEntries(shape, e.U),
                         V |-> FromEntries(shape, e.V),
                         W |-> FromEntries(shape, e.W)]]

\* ---------------------------------------------------------------- accessor
k_U == <<"U">>
k_V == <<"V">>
k_W == <<"W">>
k_P == <<"P">>
k_M == <<"M">>
k_u == <<"u">>
k_v == <<"v">>
k_w == <<"w">>
k_uu == <<"u", "u">>
k_vv == <<"v", "v">>
k_ww == <<"w", "w">>
k_cte == <<"c", "t", "e">>
k_uv == <<"u", "v">>
k_uw == <<"u", "w">>
k_vw == <<"v", "w">>
k_uvw == <<"u", "v", "w">>
k_num == <<"n", "u", "m">>

VelKeys == {k_U, k_V, k_W, k_P, k_M, k_u, k_v, k_w, k_uu, k_vv, k_ww, k_cte,
            k_uv, k_uw, k_vw, k_uvw, k_num}

MeshKeys == {<<"x", "_", "m", "e", "s", "h">>, <<"y", "_", "m", "e", "s", "h">>}

MeshField(mg, key) == IF key[1] = "x" THEN mg.x_mesh ELSE mg.y_mesh

\* __getitem__ without the reversed-key branch
GetItemNoReverse(vm, mg, key) ==
    IF key \in VelKeys THEN vm[key]
    ELSE IF key \in MeshKeys THEN MeshField(mg, key)
    ELSE None

\* self.__getitem__(key): falls off the end, returning None, on an unknown key
GetItem(vm, mg, key) ==
    IF key \in VelKeys THEN vm[key]
    ELSE IF Reverse(key) \in VelKeys THEN vm[Reverse(key)]
    ELSE IF key \in MeshKeys THEN MeshField(mg, key)
    ELSE None

\* __setitem__ that drops a write to an unknown key without raising
SetItemSilent(vm, key, value) ==
    IF key \in VelKeys THEN [err |-> None, vm |-> [vm EXCEPT ![key] = value]]
    ELSE IF Reverse(key) \in VelKeys
         THEN [err |-> None, vm |-> [vm EXCEPT ![Reverse(key)] = value]]
    ELSE [err |-> None, vm |-> vm]

\* __setitem__ that fills a field only while it is still None
SetItemKeep(vm, key, value) ==
    LET k == IF key \in VelKeys THEN key ELSE Reverse(key)
    IN  IF k \in VelKeys
        THEN [err |-> None,
              vm |-> IF vm[k].kind = "None" THEN [vm EXCEPT ![k] = value] ELSE vm]
        ELSE [err |-> PyStr("AttributeError"), vm |-> vm]

\* self.__setitem__(key, value): the dictionary afterwards, and what it raised
SetItem(vm, key, value) ==
    IF key \in VelKeys THEN [err |-> None, vm |-> [vm EXCEPT ![key] = value]]
    ELSE IF Reverse(key) \in VelKeys
         THEN [err |-> None, vm |-> [vm EXCEPT ![Reverse(key)] = value]]
    ELSE [err |-> PyStr("AttributeError"), vm |-> vm]

\* self[key] = value inside the class, where every key is a field key
Put(vm, key, value) == SetItem(vm, key, value).vm

\* ------------------------------------------------- masked-array arithmetic
IsNone(x) == x.kind = "None"
Shape(d) == <<d[1].v, d[2].v>>

\* binary operations on two cells: masked where either operand is
MulCell(x, y) == IF x.mask \/ y.mask THEN Masked ELSE Valid(Mul(x.val, y.val))
AddCell(x, y) == IF x.mask \/ y.mask THEN Masked ELSE Valid(Add(x.val, y.val))
SubCell(x, y) == IF x.mask \/ y.mask THEN Masked ELSE Valid(Sub(x.val, y.val))

\* elementwise operations on 2-d masked arrays of one shape
MulMA(A, B) == MA(A.shape, [i \in DOMAIN A.cell |-> MulCell(A.cell[i], B.cell[i])])
AddMA(A, B) == MA(A.shape, [i \in DOMAIN A.cell |-> AddCell(A.cell[i], B.cell[i])])
SqrtMA(A) == MA(A.shape, [i \in DOMAIN A.cell |->
                 IF A.cell[i].mask THEN Masked ELSE Valid(Sqrt(A.cell[i].val))])
DivMA(A, k) == MA(A.shape, [i \in DOMAIN A.cell |->
                 IF A.cell[i].mask THEN Masked ELSE Valid(DivInt(A.cell[i].val, k))])

\* A stack (rows x cols x depth) is a function from the cell index to the
\* sequence of that cell's entries along the sample axis.
\* u_set[:, :, i] = cvm[comp], for every i
Stacked(list, comp, shape) ==
    AsTuple([i \in 1..NCells(shape) |->
        AsTuple([k \in 1..Len(list) |->
            list[k][comp].cell[BroadcastIndex(list[k][comp].shape, shape, i)]])])

ValidAlong(col) == {k \in DOMAIN col : ~col[k].mask}

\* stack.count(axis=2) at one cell
CountAlong(col) == Cardinality(ValidAlong(col))

RECURSIVE SumOver(_, _)
SumOver(col, ks) ==
    IF ks = {} THEN Zero
    ELSE LET k == CHOOSE x \in ks : TRUE
         IN  Add(col[k].val, SumOver(col, ks \ {k}))

\* MeanAlong with the invalid entries counted as zeros: the sum over the depth
MeanAlongZeroFill(col) ==
    IF ValidAlong(col) = {} THEN Masked
    ELSE Valid(DivInt(SumOver(col, ValidAlong(col)), Len(col)))

\* np.ma.mean(stack, axis=2) at one cell: the valid entries' sum over their
\* count; masked when no entry is valid
MeanAlong(col) ==
    IF ValidAlong(col) = {} THEN Masked
    ELSE Valid(DivInt(SumOver(col, ValidAlong(col)), CountAlong(col)))

MaMean(stack, shape) == MA(shape, [i \in 1..NCells(shape) |-> MeanAlong(stack[i])])

\* np.ma.masked_array(data, mask=mpm): the data kept, the masks or-ed
MaskedArray(data, mpm) ==
    MA(data.shape, [i \in DOMAIN data.cell |->
          [mask |-> data.cell[i].mask \/ mpm[i], val |-> data.cell[i].val]])

\* stack[:, :, i] - mean, for every i
Fluctuation(stack, mean) ==
    AsTuple([i \in DOMAIN stack |->
        AsTuple([k \in DOMAIN stack[i] |-> SubCell(stack[i][k], mean.cell[i])])])

\* elementwise products and abs() of stacks
MulStack(S, T) ==
    AsTuple([i \in DOMAIN S |->
        AsTuple([k \in DOMAIN S[i] |-> MulCell(S[i][k], T[i][k])])])
AbsStack(S) ==
    AsTuple([i \in DOMAIN S |-> AsTuple([k \in DOMAIN S[i] |->
        IF S[i][k].mask THEN Masked ELSE Valid(AbsRat(S[i][k].val))])])

\* ------------------------------------------------------ _average_cartesian
\* What `count <= None` can give: every comparison False (Python 2 orders
\* None below every number), or a TypeError (builds that refuse to order them).
NoneComparisons == {"False", "TypeError"}

\* the outcomes open to a call whose threshold is `arg`
NoneOutcomes(arg) == IF IsNone(arg) THEN NoneComparisons ELSE {"False"}

\* mpm = u_set.count(axis=2) <= min_points, with the ARGUMENT min_points
ThresholdMask(cnt, arg) ==
    AsTuple([i \in DOMAIN cnt |-> IF IsNone(arg) THEN FALSE ELSE cnt[i] <= arg.v])

\* np.ma.masked_array(np.ma.mean(stack, axis=2), mask=mpm)
Mean(stack, shape, mpm) == MaskedArray(MaMean(stack, shape), mpm)

\* self['num'] = np.ma.masked_array(u_set.count(axis=2), mask=mpm)
SetNum(vm, shape, u_set, mpm) ==
    Put(vm, k_num,
        MaskedArray(MA(shape, [i \in 1..NCells(shape) |->
                                 Valid(Rat(CountAlong(u_set[i]), 1))]), mpm))

\* self['U'], self['V'], self['W']
SetMeans(vm, shape, u_set, v_set, w_set, mpm) ==
    Put(Put(Put(vm, k_U, Mean(u_set, shape, mpm)),
                    k_V, Mean(v_set, shape, mpm)),
                    k_W, Mean(w_set, shape, mpm))

\* (U ** 2 + V ** 2 + W ** 2) ** 0.5 and (U ** 2 + V ** 2) ** 0.5
Magnitude(U, V, W) == SqrtMA(AddMA(AddMA(MulMA(U, U), MulMA(V, V)), MulMA(W, W)))
Planar(U, V) == SqrtMA(AddMA(MulMA(U, U), MulMA(V, V)))

\* self['M'] and self['P'], from self['U'], self['V'], self['W'] read back
\* through __getitem__
SetM(vm, mg) ==
    Put(vm, k_M, Magnitude(GetItem(vm, mg, k_U), GetItem(vm, mg, k_V),
                           GetItem(vm, mg, k_W)))
SetP(vm, mg) ==
    Put(vm, k_P, Planar(GetItem(vm, mg, k_U), GetItem(vm, mg, k_V)))

\* self['u'] ... self['ww'], from the fluctuation stacks
SetMoments(vm, shape, mpm, u_set_p, v_set_p, w_set_p) ==
    Put(Put(Put(Put(Put(Put(vm,
        k_u, Mean(AbsStack(u_set_p), shape, mpm)),
        k_v, Mean(AbsStack(v_set_p), shape, mpm)),
        k_w, Mean(AbsStack(w_set_p), shape, mpm)),
        k_uu, Mean(MulStack(u_set_p, u_set_p), shape, mpm)),
        k_vv, Mean(MulStack(v_set_p, v_set_p), shape, mpm)),
        k_ww, Mean(MulStack(w_set_p, w_set_p), shape, mpm))

\* self['cte'] = (self['uu'] + self['vv'] + self['ww']) / 2
SetCte(vm, mg) ==
    Put(vm, k_cte,
        DivMA(AddMA(AddMA(GetItem(vm, mg, k_uu), GetItem(vm, mg, k_vv)),
                    GetItem(vm, mg, k_ww)), 2))

\* self['uv'], self['uw'], self['vw'], self['uvw']
SetCross(vm, shape, mpm, u_set_p, v_set_p, w_set_p) ==
    Put(Put(Put(Put(vm,
        k_uv, Mean(MulStack(u_set_p, v_set_p), shape, mpm)),
        k_uw, Mean(MulStack(u_set_p, w_set_p), shape, mpm)),
        k_vw, Mean(MulStack(v_set_p, w_set_p), shape, mpm)),
        k_uvw, Mean(MulStack(MulStack(u_set_p, v_set_p), w_set_p), shape, mpm))

\* the lines after the fluctuation stacks are built
SetFluctuationStatistics(vm, mg, shape, mpm, u_set_p, v_set_p, w_set_p) ==
    SetCross(SetCte(SetMoments(vm, shape, mpm, u_set_p, v_set_p, w_set_p), mg),
             shape, mpm, u_set_p, v_set_p, w_set_p)

\* u_set_p[:, :, i] = u_set[:, :, i] - self['U'], and so for v and w, then
\* the statistics of the fluctuations
SetTurbulence(vm, mg, shape, mpm, u_set, v_set, w_set) ==
    SetFluctuationStatistics(vm, mg, shape, mpm,
                             Fluctuation(u_set, GetItem(vm, mg, k_U)),
                             Fluctuation(v_set, GetItem(vm, mg, k_V)),
                             Fluctuation(w_set, GetItem(vm, mg, k_W)))

\* the lines after mpm is computed, in the order of the code
SetStatistics(vm, mg, shape, mpm, u_set, v_set, w_set) ==
    SetTurbulence(
        SetP(SetM(SetMeans(SetNum(vm, shape, u_set, mpm),
                           shape, u_set, v_set, w_set, mpm), mg), mg),
        mg, shape, mpm, u_set, v_set, w_set)

\* mpm from the U stack's counts, then the statistics
StackStatistics(vm, mg, shape, arg, u_set, v_set, w_set) ==
    SetStatistics(vm, mg, shape,
                  ThresholdMask(AsTuple([i \in 1..NCells(shape) |->
                                            CountAlong(u_set[i])]), arg),
                  u_set, v_set, w_set)

\* The statistics written through self[...] = ..., from the stacks of the
\* retained samples
Statistics(vm, mg, list, shape, arg) ==
    StackStatistics(vm, mg, shape, arg, Stacked(list, "U", shape),
                    Stacked(list, "V", shape), Stacked(list, "W", shape))

\* self._average_cartesian(arg): the instance's min_points and vel_matrix
\* afterwards and what the call raised. noneCmp picks the outcome of
\* `count <= None`.
AverageCartesian(mp, list, d, vm, mg, arg, noneCmp) ==
    LET mp1 == IF IsNone(arg) THEN mp ELSE arg
        fail(e) == [err |-> PyStr(e), min_points |-> mp1, vel_matrix |-> vm]
    IN  IF IsNone(d[1]) \/ IsNone(d[2])
        THEN fail("TypeError")      \* np.ma.zeros((None, None, depth))
        ELSE IF \E k \in 1..Len(list) :
                  ~Broadcastable(list[k].U.shape, Shape(d))
        THEN fail("ValueError")     \* u_set[:, :, i] = cvm['U'] cannot broadcast
        ELSE IF IsNone(arg) /\ noneCmp = "TypeError"
        THEN fail("TypeError")
        ELSE [err |-> None, min_points |-> mp1,
              vel_matrix |-> Statistics(vm, mg, list, Shape(d), arg)]

\* ------------------------------------------------------------ ingest_paths
NoDims == <<None, None>>
NoMesh == [x_mesh |-> None, y_mesh |-> None]
NoFields == [k \in VelKeys |-> None]

\* the attributes __init__ sets before it looks at v3d_paths
Fresh(mp) ==
    [min_points |-> mp, list |-> <<>>, x_set |-> None, y_set |-> None,
     dims |-> NoDims, meshgrid |-> NoMesh, vel_matrix |-> NoFields]

Self ==
    [min_points |-> min_points, list |-> constituent_vel_matrix_list,
     x_set |-> x_set, y_set |-> y_set, dims |-> dims, meshgrid |-> meshgrid,
     vel_matrix |-> vel_matrix]

\* how many of the paths after the first are appended: all of them, or those
\* before the first whose dims differ from the first's (the failing assert)
RECURSIVE Accepted(_, _)
Accepted(first, rest) ==
    IF rest = <<>> THEN 0
    ELSE IF VecFieldCartesian(Head(rest)).dims # first.dims THEN 0
    ELSE 1 + Accepted(first, Tail(rest))

\* ingest_paths that returns quietly when given no paths
IngestPathsCallQuietEmpty(self, paths, noneCmp) ==
    IF paths = <<>>
    THEN [err |-> None, self |-> self]
    ELSE
    LET first_vf == VecFieldCartesian(Head(paths))
        rest == Tail(paths)
        n == Accepted(first_vf, rest)
        list2 == Append(self.list, first_vf.vel_matrix)
                    \o [j \in 1..n |-> VecFieldCartesian(rest[j]).vel_matrix]
        self1 == [self EXCEPT !.x_set = first_vf.x_set, !.y_set = first_vf.y_set,
                              !.dims = first_vf.dims, !.meshgrid = first_vf.meshgrid,
                              !.list = list2]
        avg == AverageCartesian(self1.min_points, self1.list, self1.dims,
                                self1.vel_matrix, self1.meshgrid,
                                self1.min_points, noneCmp)
    IN  IF n < Len(rest)
        THEN [err |-> PyStr("AssertionError"), self |-> self1]
        ELSE [err |-> avg.err,
              self |-> [self1 EXCEPT !.min_points = avg.min_points,
                                     !.vel_matrix = avg.vel_matrix]]

\* ingest_paths that takes the statistics of what it loaded before it
\* compares the dimensions
IngestPathsCallLateAssert(self, paths, noneCmp) ==
    IF paths = <<>>
    THEN [err |-> PyStr("IndexError"), self |-> self]
    ELSE
    LET first_vf == VecFieldCartesian(Head(paths))
        rest == Tail(paths)
        n == Accepted(first_vf, rest)
        list2 == Append(self.list, first_vf.vel_matrix)
                    \o [j \in 1..n |-> VecFieldCartesian(rest[j]).vel_matrix]
        self1 == [self EXCEPT !.x_set = first_vf.x_set, !.y_set = first_vf.y_set,
                              !.dims = first_vf.dims, !.meshgrid = first_vf.meshgrid,
                              !.list = list2]
        avg == AverageCartesian(self1.min_points, self1.list, self1.dims,
                                self1.vel_matrix, self1.meshgrid,
                                self1.min_points, noneCmp)
        self2 == [self1 EXCEPT !.min_points = avg.min_points,
                               !.vel_matrix = avg.vel_matrix]
    IN  IF ~IsNone(avg.err) THEN [err |-> avg.err, self |-> self2]
        ELSE IF n < Len(rest) THEN [err |-> PyStr("AssertionError"), self |-> self2]
        ELSE [err |-> None, self |-> self2]

\* self.ingest_paths(paths): the instance afterwards and what the call raised
IngestPathsCall(self, paths, noneCmp) ==
    IF paths = <<>>
    THEN [err |-> PyStr("IndexError"), self |-> self]    \* filepath_list.pop(0)
    ELSE
    LET first_vf == VecFieldCartesian(Head(paths))
        rest == Tail(paths)
        n == Accepted(first_vf, rest)
        list1 == Append(self.list, first_vf.vel_matrix)
        list2 == list1 \o [j \in 1..n |-> VecFieldCartesian(rest[j]).vel_matrix]
        self1 == [self EXCEPT !.x_set = first_vf.x_set, !.y_set = first_vf.y_set,
                              !.dims = first_vf.dims, !.meshgrid = first_vf.meshgrid,
                              !.list = list2]
        avg == AverageCartesian(self1.min_points, self1.list, self1.dims,
                                self1.vel_matrix, self1.meshgrid,
                                self1.min_points, noneCmp)
    IN  IF n < Len(rest)
        THEN [err |-> PyStr("AssertionError"), self |-> self1]
        ELSE [err |-> avg.err,
              self |-> [self1 EXCEPT !.min_points = avg.min_points,
                                     !.vel_matrix = avg.vel_matrix]]

\* --------------------------------------------------------------- the calls
Thresholds == {None, PyInt(0), PyInt(MaxPoints)}
InitThresholds == {PyInt(DefaultMinPoints)}

\* the lists of distinct paths a caller hands over
PathLists ==
    UNION {{l \in [1..n -> Paths] : \A i, j \in 1..n : i # j => l[i] # l[j]} :
           n \in 0..MaxPaths}

k_vu == Reverse(k_uv)
k_wvu == Reverse(k_uvw)
k_zz == <<"z", "z">>
k_x_mesh == <<"x", "_", "m", "e", "s", "h">>
\* the keys callers use
CallerKeys == {k_uv, k_vu, k_wvu, k_zz, k_x_mesh}

\* the value callers write: unlike anything the statistics produce
Scribble == MA(<<1, 1>>, [i \in 1..1 |-> Valid(Rat(7, 1))])
Written(vm) == {k \in VelKeys : vm[k] = Scribble}

PyList(l) == [kind |-> "list", v |-> l]

\* A call as `last` records it: the operation, its key, its threshold and its
\* path list (None where it has none or was given none), what it raised, what
\* it returned, and how many fields held a caller-written value when it began.
Call(op, key, arg, paths, err, ret) ==
    [op |-> op, key |-> key, arg |-> arg, paths |-> paths, err |-> err,
     ret |-> ret, written |-> Cardinality(Written(vel_matrix))]

Adopt(self) ==
    /\ min_points' = self.min_points
    /\ constituent_vel_matrix_list' = self.list
    /\ x_set' = self.x_set
    /\ y_set' = self.y_set
    /\ dims' = self.dims
    /\ meshgrid' = self.meshgrid
    /\ vel_matrix' = self.vel_matrix

Init ==
    /\ constructed = FALSE
    /\ min_points = None
    /\ constituent_vel_matrix_list = <<>>
    /\ x_set = None
    /\ y_set = None
    /\ dims = NoDims
    /\ meshgrid = NoMesh
    /\ vel_matrix = NoFields
    /\ last = Call("none", <<>>, None, None, None, None)

\* MeanVecFieldCartesian(name_tag, min_points=mp): v3d_paths left at None
ConstructEmpty(mp) ==
    /\ ~constructed
    /\ constructed' = TRUE
    /\ Adopt(Fresh(mp))
    /\ last' = Call("__init__", <<>>, mp, None, None, None)

\* MeanVecFieldCartesian(name_tag, paths, min_points=mp): a raise out of
\* ingest_paths leaves no instance, only the attributes as they were then
ConstructFrom(paths, mp) ==
    /\ ~constructed
    /\ Len(paths) <= MaxDepth
    /\ \E nc \in NoneOutcomes(mp) :
       \E r \in {IngestPathsCall(Fresh(mp), paths, nc)} :
          /\ constructed' = IsNone(r.err)
          /\ Adopt(r.self)
          /\ last' = Call("__init__", <<>>, mp, PyList(paths), r.err, None)

IngestPaths(paths) ==
    /\ constructed
    /\ Len(constituent_vel_matrix_list) + Len(paths) <= MaxDepth
    /\ \E nc \in NoneOutcomes(min_points) :
       \E r \in {IngestPathsCall(Self, paths, nc)} :
          /\ UNCHANGED constructed
          /\ Adopt(r.self)
          /\ last' = Call("ingest_paths", <<>>, None, PyList(paths), r.err, None)

Average(arg) ==
    /\ constructed
    /\ \E nc \in NoneOutcomes(arg) :
       \E r \in {AverageCartesian(min_points, constituent_vel_matrix_list, dims,
                                  vel_matrix, meshgrid, arg, nc)} :
          /\ min_points' = r.min_points
          /\ vel_matrix' = r.vel_matrix
          /\ UNCHANGED <<constructed, constituent_vel_matrix_list, x_set, y_set,
                         dims, meshgrid>>
          /\ last' = Call("_average_cartesian", <<>>, arg, None, r.err, None)

\* instance[key]
Get(key) ==
    /\ constructed
    /\ UNCHANGED <<constructed, min_points, constituent_vel_matrix_list, x_set,
                   y_set, dims, meshgrid, vel_matrix>>
    /\ last' = Call("__getitem__", key, None, None, None,
                    GetItem(vel_matrix, meshgrid, key))

\* instance[key] = Scribble
Set(key) ==
    /\ constructed
    /\ \E r \in {SetItem(vel_matrix, key, Scribble)} :
          /\ Cardinality(Written(r.vm)) <= MaxWrites
          /\ vel_matrix' = r.vm
          /\ UNCHANGED <<constructed, min_points, constituent_vel_matrix_list,
                         x_set, y_set, dims, meshgrid>>
          /\ last' = Call("__setitem__", key, None, None, r.err, None)

\* The life of an instance: construction, ingestion, aggregation.
Next ==
    \/ \E mp \in InitThresholds : ConstructEmpty(mp)
    \/ \E paths \in PathLists, mp \in InitThresholds : ConstructFrom(paths, mp)
    \/ \E paths \in PathLists : IngestPaths(paths)
    \/ \E arg \in Thresholds : Average(arg)

Spec == Init /\ [][Next]_vars

\* An instance under its accessor: construction, aggregation, reads, writes.
NextAccess ==
    \/ \E mp \in InitThresholds : ConstructEmpty(mp)
    \/ \E paths \in PathLists, mp \in InitThresholds : ConstructFrom(paths, mp)
    \/ \E arg \in Thresholds : Average(arg)
    \/ \E key \in CallerKeys : Get(key)
    \/ \E key \in CallerKeys : Set(key)

SpecAccess == Init /\ [][NextAccess]_vars

\* ================================================================= claims
Cells == 1..NCells(Shape(dims))
Depth == Len(constituent_vel_matrix_list)

\* the entry sample k contributes to cell i of the instance's grid
Sample(k, comp, i) ==
    LET m == constituent_vel_matrix_list[k][comp]
    IN  m.cell[BroadcastIndex(m.shape, Shape(dims), i)]

\* the samples valid at cell i in every component of comps
ValidSamples(comps, i) ==
    {k \in 1..Depth : \A c \in comps : ~Sample(k, c, i).mask}

\* the last call ran the aggregation to its end
AggregatedOk ==
    /\ last.op \in {"__init__", "ingest_paths", "_average_cartesian"}
    /\ IsNone(last.err)
    /\ constituent_vel_matrix_list # <<>>

Raised(call, e) == call.err.kind = "str" /\ call.err.s = e
GivenPaths(call) == call.paths.kind = "list"

\* C1: after a successful aggregation every derived field is masked at a cell
\* exactly when num is masked there. Stated here for the aggregations that ran
\* with an integer threshold, which the claim includes.
C1_FieldsMaskedWithNum ==
    (AggregatedOk /\ (last.op = "_average_cartesian" => ~IsNone(last.arg))) =>
        \A F \in VelKeys \ {k_num} : \A i \in Cells :
            vel_matrix[F].cell[i].mask <=> vel_matrix[k_num].cell[i].mask

\* C2: after a successful aggregation num holds, at every cell, the number of
\* retained samples whose U entry is valid there, and is masked exactly when
\* that number is at most the instance's min_points.
C2_NumCountsAgainstMinPoints ==
    AggregatedOk =>
        \A i \in Cells :
            LET c == Cardinality(ValidSamples({"U"}, i))
            IN  /\ vel_matrix[k_num].cell[i].val = Rat(c, 1)
                /\ vel_matrix[k_num].cell[i].mask <=> (c <= min_points.v)

RECURSIVE SumOf(_, _)
\* the sum of f[k] over k in ks
SumOf(f, ks) ==
    IF ks = {} THEN 0
    ELSE LET k == CHOOSE x \in ks : TRUE IN f[k] + SumOf(f, ks \ {k})

RECURSIVE ProductOf(_, _)
\* the product of f[j] over the indices j in js
ProductOf(f, js) ==
    IF js = {} THEN 1
    ELSE LET j == CHOOSE x \in js : TRUE IN f[j] * ProductOf(f, js \ {j})

\* the integer a sample holds (the loader's entries are integers)
Entry(k, comp, i) == Sample(k, comp, i).val.n

\* n * (x_k - mean) for component comp at cell i, n its valid count there:
\* the fluctuation of sample k, scaled to stay an integer
ScaledDev(k, comp, i) ==
    LET ks == ValidSamples({comp}, i)
    IN  Cardinality(ks) * Entry(k, comp, i)
          - SumOf([j \in 1..Depth |-> IF j \in ks THEN Entry(j, comp, i) ELSE 0], ks)

\* field F at cell i, where unmasked, is num / den
HoldsAt(F, i, num, den) ==
    ~vel_matrix[F].cell[i].mask =>
        den > 0 /\ vel_matrix[F].cell[i].val = Rat(num, den)

\* the mean of component comp: its sum over the samples valid at the cell,
\* over their number
MeanIs(F, comp, i) ==
    LET ks == ValidSamples({comp}, i)
    IN  HoldsAt(F, i,
                SumOf([k \in 1..Depth |-> IF k \in ks THEN Entry(k, comp, i) ELSE 0], ks),
                Cardinality(ks))

\* the moment of the components comps[1], comps[2], ...: the sum, over the
\* samples valid in all of them, of the product of their fluctuations, over
\* the number of those samples
MomentIs(F, comps, i) ==
    LET js == DOMAIN comps
        ks == ValidSamples({comps[j] : j \in js}, i)
        scale == ProductOf([j \in js |-> Cardinality(ValidSamples({comps[j]}, i))], js)
    IN  HoldsAt(F, i,
                SumOf([k \in 1..Depth |->
                         IF k \in ks
                         THEN ProductOf([j \in js |-> ScaledDev(k, comps[j], i)], js)
                         ELSE 0], ks),
                scale * Cardinality(ks))

\* the mean absolute fluctuation of component comp
AbsMomentIs(F, comp, i) ==
    LET ks == ValidSamples({comp}, i)
    IN  HoldsAt(F, i,
                SumOf([k \in 1..Depth |->
                         IF k \in ks THEN AbsInt(ScaledDev(k, comp, i)) ELSE 0], ks),
                Cardinality(ks) * Cardinality(ks))

\* C3: at every cell an aggregation leaves unmasked, U, V and W are the sum of
\* the component over exactly its valid samples divided by their number, and
\* every moment field is the sum over the valid samples of the product of the
\* fluctuations divided by the number of those samples (not that number less
\* one).
C3_MeansAndMomentsOverValidSamples ==
    AggregatedOk =>
        \A i \in Cells :
            /\ MeanIs(k_U, "U", i)
            /\ MeanIs(k_V, "V", i)
            /\ MeanIs(k_W, "W", i)
            /\ AbsMomentIs(k_u, "U", i)
            /\ AbsMomentIs(k_v, "V", i)
            /\ AbsMomentIs(k_w, "W", i)
            /\ MomentIs(k_uu, <<"U", "U">>, i)
            /\ MomentIs(k_vv, <<"V", "V">>, i)
            /\ MomentIs(k_ww, <<"W", "W">>, i)
            /\ MomentIs(k_uv, <<"U", "V">>, i)
            /\ MomentIs(k_uw, <<"U", "W">>, i)
            /\ MomentIs(k_vw, <<"V", "W">>, i)
            /\ MomentIs(k_uvw, <<"U", "V", "W">>, i)

\* U samples 1, 3, 5 at the first cell, all valid, threshold 2:
\* num = 3, U = 3, u = 4/3, uu = 8/3, unmasked
C3_Witness ==
    /\ AggregatedOk
    /\ min_points = PyInt(2)
    /\ Depth = 3
    /\ {Sample(k, "U", 1) : k \in 1..Depth} = {Valid(Rat(x, 1)) : x \in {1, 3, 5}}
    /\ vel_matrix[k_num].cell[1] = Valid(Rat(3, 1))
    /\ vel_matrix[k_U].cell[1] = Valid(Rat(3, 1))
    /\ vel_matrix[k_u].cell[1] = Valid(Rat(4, 3))
    /\ vel_matrix[k_uu].cell[1] = Valid(Rat(8, 3))

UnknownKey(key) ==
    key \notin VelKeys /\ Reverse(key) \notin VelKeys /\ key \notin MeshKeys

\* C4: a read through a key whose reversal is a field key returns the field
\* stored under the reversal; a write through a key is seen by reads through
\* the key and through its reversal; a read through a key that is no field
\* key, no reversal of one and no mesh key returns None and raises nothing.
C4_AccessorIgnoresKeyOrder ==
    /\ (last.op = "__getitem__" /\ Reverse(last.key) \in VelKeys) =>
           last.ret = vel_matrix[Reverse(last.key)]
    /\ (last.op = "__setitem__" /\ IsNone(last.err)) =>
           /\ GetItem(vel_matrix, meshgrid, last.key) = Scribble
           /\ GetItem(vel_matrix, meshgrid, Reverse(last.key)) = Scribble
    /\ (last.op = "__getitem__" /\ UnknownKey(last.key)) =>
           IsNone(last.ret) /\ IsNone(last.err)

\* a computed field read through its reversed key
C4_Witness ==
    /\ last.op = "__getitem__"
    /\ last.key = k_wvu
    /\ last.ret.kind = "ma"
    /\ last.ret = vel_matrix[k_uvw]

\* C5: a write through a key that is no field key in either orientation raises
\* the invalid-key error and leaves the fields, the mesh and the retained
\* samples as they were.
C5_InvalidKeyWriteChangesNothing ==
    [][(last'.op = "__setitem__"
          /\ last'.key \notin VelKeys /\ Reverse(last'.key) \notin VelKeys) =>
         /\ Raised(last', "AttributeError")
         /\ UNCHANGED <<vel_matrix, meshgrid, x_set, y_set, dims,
                        constituent_vel_matrix_list, min_points>>]_vars

\* a rejected write on an instance whose fields are computed
C5_Witness ==
    /\ last.op = "__setitem__"
    /\ last.key = k_zz
    /\ Raised(last, "AttributeError")
    /\ \A F \in VelKeys : vel_matrix[F].kind = "ma"

\* a later path's grid differs from the first path's
HasMismatch(paths) ==
    \E j \in 2..Len(paths) : FileShape(paths[j]) # FileShape(paths[1])

\* C6: an ingest whose list holds, at any later position, a sample of a grid
\* other than the first sample's raises the dimension-mismatch error, and the
\* call neither computes nor overwrites any derived field.
C6_MismatchFailsBeforeAggregation ==
    [][(last'.op \in {"ingest_paths", "__init__"} /\ GivenPaths(last')
          /\ HasMismatch(last'.paths.v)) =>
         /\ Raised(last', "AssertionError")
         /\ last'.op = "ingest_paths" => vel_matrix' = vel_matrix
         /\ last'.op = "__init__" => vel_matrix' = NoFields]_vars

\* a mismatching ingest on an instance whose fields are computed
C6_Witness ==
    /\ last.op = "ingest_paths"
    /\ HasMismatch(last.paths.v)
    /\ Raised(last, "AssertionError")
    /\ \A F \in VelKeys : vel_matrix[F].kind = "ma"

\* C7: an ingest that raises the dimension-mismatch error leaves the list of
\* retained samples as it was before the call.
C7_MismatchRetainsNothing ==
    [][(last'.op = "ingest_paths" /\ Raised(last', "AssertionError")) =>
         constituent_vel_matrix_list' = constituent_vel_matrix_list]_vars

FreshlyUnset ==
    /\ constituent_vel_matrix_list = <<>>
    /\ dims = NoDims
    /\ vel_matrix = NoFields

\* C8: an ingest given an empty list raises, leaving the retained samples, the
\* grid and every derived field as they were (unset, when it is the
\* constructor that was given the empty list, and then no instance results);
\* a constructor given no list at all returns an empty instance.
C8_EmptyListFails ==
    [][/\ (last'.op = "ingest_paths" /\ last'.paths.v = <<>>) =>
            /\ ~IsNone(last'.err)
            /\ UNCHANGED <<vel_matrix, meshgrid, x_set, y_set, dims,
                           constituent_vel_matrix_list, min_points>>
       /\ (last'.op = "__init__" /\ GivenPaths(last') /\ last'.paths.v = <<>>) =>
            /\ ~IsNone(last'.err)
            /\ ~constructed'
            /\ FreshlyUnset'
       /\ (last'.op = "__init__" /\ ~GivenPaths(last')) =>
            /\ IsNone(last'.err)
            /\ constructed'
            /\ FreshlyUnset']_vars

\* an empty list handed to a populated instance
C8_Witness ==
    /\ last.op = "ingest_paths"
    /\ last.paths.v = <<>>
    /\ Raised(last, "IndexError")
    /\ constituent_vel_matrix_list # <<>>
    /\ \A F \in VelKeys : vel_matrix[F].kind = "ma"

\* the threshold the last aggregation was run with
LastThreshold ==
    IF last.op = "_average_cartesian" THEN last.arg ELSE min_points

\* C9: after a successful aggregation the derived fields are those the
\* aggregation computes from unset fields for the retained samples and the
\* threshold of that aggregation: nothing of earlier aggregations or of
\* accessor writes remains.
C9_AggregationReplacesEveryField ==
    AggregatedOk =>
        vel_matrix = Statistics(NoFields, NoMesh, constituent_vel_matrix_list,
                                Shape(dims), LastThreshold)

\* a re-aggregation over fields a caller had written to
C9_Witness ==
    /\ AggregatedOk
    /\ last.op = "_average_cartesian"
    /\ last.written > 0
    /\ \E i \in Cells : ~vel_matrix[k_uv].cell[i].mask

\* C10: every retained sample has the grid recorded in dims.
C10_RetainedSamplesShareDims ==
    constructed =>
        \A k \in 1..Depth :
            constituent_vel_matrix_list[k].U.shape = Shape(dims)
====
